---- MODULE Spec2Model ----
(***************************************************************************)
(* The HTML sanitation and splice engine of Backend/Scraper.py.            *)
(*                                                                         *)
(* A parsed document (a BeautifulSoup object) is the sequence of its       *)
(* elements in document order (pre-order).  Each element carries its       *)
(* depth below the soup object (top-level elements have depth 1), its tag  *)
(* name, its attributes as a set of <<name, value>> pairs with unique      *)
(* names, text, the sequence of its own string children, and nid, the      *)
(* identity of the Python object.  The sub-tree of the element at index i is the       *)
(* maximal run i..End(doc, i) of deeper elements that follows it.          *)
(***************************************************************************)
EXTENDS Integers, Sequences, FiniteSets, TLC

VARIABLES
    html_to_clean,   \* the submitted HTML (clean_html, line 680/682)
    raising,         \* nids of the headers whose contents make contains_navigation raise
    soup,            \* the tree clean_html filters in place (line 684)
    cleaned_html,    \* soup.prettify() (line 821)
    user_prompt,     \* the source HTML embedded in the prompt (line 835)
    pc,              \* position of the handler
    main_html,       \* extract_main_html_and_url: the content sub-tree
    url,             \* extract_main_html_and_url: the canonical URL or None
    raw_model_output,\* call_model's answer, a string of markup
    new_main_outer,  \* the replacement block handed to the splicer, as it parses it
    final_html,      \* replace_main_and_inject_css's result
    error,           \* the exception that ended the operation, or "none"
    splices          \* number of splices applied so far

vars == <<html_to_clean, raising, soup, cleaned_html, user_prompt, pc, main_html, url,
          raw_model_output, new_main_outer, final_html, error, splices>>

(***************************************************************************)
(* Bounds of the model.                                                    *)
(***************************************************************************)
MaxNodes == 3
MaxOrigNodes == 4
MaxSplices == 2
MaxTokens == 4

None == "<None>"
NoDoc == <<>>

(***************************************************************************)
(* Strings.  TLC cannot look inside a string, so the string tests of the   *)
(* code are tabulated over the values the model's documents use.           *)
(***************************************************************************)
\* str.lower()
Lower(s) ==
    CASE s = "https://CDN.example.com/Analytics.js" -> "https://cdn.example.com/analytics.js"
      [] s = "DISPLAY : None" -> "display : none"
      [] s = "Display:Block" -> "display:block"
      [] OTHER -> s

\* the class attribute is a list of tokens (bs4 multi-valued attribute)
Tokens(s) ==
    CASE s = "card main-menu" -> {"card", "main-menu"}
      [] s = "promo cookie" -> {"promo", "cookie"}
      [] s = "alternate stylesheet" -> {"alternate", "stylesheet"}
      [] s = "" -> {}
      [] OTHER -> {s}

\* the substrings of line 733-745
trackers ==
    {"analytics", "gtag", "google-analytics", "googletagmanager", "facebook.net",
     "fbevents", "connect.facebook", "linkedin.com", "li.lms-analytics", "reddit",
     "pixel", "pinterest", "pintrk", "tiq.sunlife", "utag", "tealium", "cookielaw",
     "onetrust", "decibelinsight", "go-mpulse", "boomerang", "chrome-extension://",
     "coveo"}

\* the keywords of line 751
inline_keywords == {"utag_data", "fbq(", "gtag(", "_linkedin_data_partner_ids"}

\* `sub in s` for the strings of the model
Contains(s, sub) ==
    \/ s = sub
    \/ <<s, sub>> \in
        {<<"https://www.googletagmanager.com/gtm.js", "googletagmanager">>,
         <<"https://www.googletagmanager.com/gtm.js", "gtm">>,
         <<"https://cdn.example.com/analytics.js", "analytics">>,
         <<"https://connect.facebook.net/en_US/fbevents.js", "facebook.net">>,
         <<"https://connect.facebook.net/en_US/fbevents.js", "fbevents">>,
         <<"https://connect.facebook.net/en_US/fbevents.js", "connect.facebook">>,
         <<"utag_sync", "utag">>,
         <<"window.BOOMR = {}", "BOOMR">>,
         <<"fbq('init', '1')", "fbq(">>,
         <<"var utag_data = {}", "utag_data">>,
         <<"var utag_data = {}", "utag">>,
         <<"gtag('js', new Date())", "gtag(">>,
         <<"gtag('js', new Date())", "gtag">>}

\* re.search(r'navigation|menu|logo', class_str, re.I)
NavClassRe(s) == s \in {"main-menu", "card main-menu", "Logo", "navigation", "menu", "logo"}

\* re.search(r'logo|home', alt_text, re.I)
LogoAltRe(s) == s \in {"Company Logo", "Home", "logo", "home"}

\* re.compile('apolloio|extension-opener|simplify-jobs').search(token)
ExtensionRe(s) == s \in {"apolloio-sidebar", "simplify-jobs-root", "extension-opener"}

\* re.search(r'display\s*:\s*none', style_value) on the lower-cased style
DisplayNoneRe(s) == s \in {"display:none", "display : none", "color:red; display: none"}

\* str.strip() == ''
Blank(s) == s \in {"", " ", "\n"}

\* html.parser: the empty-element tags, and the tags whose content is character data
void_tags == {"img", "link", "meta", "br", "hr", "input"}

cdata_tags == {"script", "style"}

(***************************************************************************)
(* Elements and trees.                                                     *)
(***************************************************************************)
Min(S) == CHOOSE x \in S : \A y \in S : x <= y

Elem(nid, depth, tag, attrs, text) ==
    [nid |-> nid, depth |-> depth, tag |-> tag, attrs |-> attrs, text |-> text]

\* tag.has_attr(a)
has_attr(n, a) == \E p \in n.attrs : p[1] = a

\* tag.get(a, default)
get(n, a, default) ==
    IF has_attr(n, a) THEN (CHOOSE p \in n.attrs : p[1] = a)[2] ELSE default

\* del tag[a]
del_attr(n, a) == [n EXCEPT !.attrs = {p \in @ : p[1] # a}]

\* last index of the sub-tree rooted at i
End(doc, i) ==
    LET later == {j \in (i + 1)..Len(doc) : doc[j].depth <= doc[i].depth}
    IN  IF later = {} THEN Len(doc) ELSE Min(later) - 1

\* indices of the sub-tree rooted at i, i included
Subtree(doc, i) == i..End(doc, i)

\* element.descendants while `gone` holds the decomposed elements: a decomposed
\* element has lost its contents, a live one never has a decomposed ancestor
descendants(doc, gone, i) ==
    IF i \in gone THEN {} ELSE {j \in (i + 1)..End(doc, i) : j \notin gone}

\* element.decompose(): detaches the element and destroys its sub-tree; on an
\* element already decomposed it finds no parent and no contents and changes nothing
decompose(doc, gone, i) == gone \cup Subtree(doc, i)

\* `for element in S: element.decompose()` over a list S found beforehand
decompose_all(doc, gone, S) == gone \cup UNION {Subtree(doc, i) : i \in S}

\* the tree without the decomposed elements
Compact(doc, gone) ==
    LET idx == {i \in 1..Len(doc) : i \notin gone}
        nth(k) == CHOOSE i \in idx : Cardinality({j \in idx : j < i}) = k - 1
    IN  [k \in 1..Cardinality(idx) |-> doc[nth(k)]]

\* soup.find_all(...): the live elements that satisfy a test, as indices
Live(doc, gone) == {i \in 1..Len(doc) : i \notin gone}

\* `sub in tag.get_text()` for a tag whose strings are `text`
text_contains(text, sub) == \E k \in 1..Len(text) : Contains(text[k], sub)

\* class tokens of an element (absent class: no token)
classes(n) == Tokens(get(n, "class", ""))

\* tag.get_text(strip=True) == '': every string below the tag is blank.  The strings
\* of script and style elements are not part of another tag's text (bs4 >= 4.11)
no_text(doc, gone, i) ==
    \A j \in ({i} \cup descendants(doc, gone, i)) \ gone :
        doc[j].tag \in {"script", "style"} \/ \A k \in 1..Len(doc[j].text) : Blank(doc[j].text[k])

(***************************************************************************)
(* The filter passes of clean_html (lines 711-818).                        *)
(***************************************************************************)
\* contains_navigation (lines 687-709).  A Tag is always truthy, so the
\* `if not element` branch is never taken for an element of the loop.  The try block
\* only searches the contents of the element: an exception can come from the
\* contents alone, and a header already decomposed has none (its searches find
\* nothing and the function returns False).
\* mutant: the search for nav tags (lines 693-694) left out
contains_navigation_no_nav(doc, gone, i) ==
    \/ \E j \in descendants(doc, gone, i) :
          has_attr(doc[j], "class") /\ NavClassRe(get(doc[j], "class", ""))
    \/ \E j \in descendants(doc, gone, i) :
          /\ doc[j].tag = "img"
          /\ get(doc[j], "alt", "") # ""
          /\ LogoAltRe(get(doc[j], "alt", ""))

contains_navigation_heuristics(doc, gone, i) ==
    \/ \E j \in descendants(doc, gone, i) : doc[j].tag = "nav"
    \/ \E j \in descendants(doc, gone, i) :
          has_attr(doc[j], "class") /\ NavClassRe(get(doc[j], "class", ""))
    \/ \E j \in descendants(doc, gone, i) :
          /\ doc[j].tag = "img"
          /\ get(doc[j], "alt", "") # ""
          /\ LogoAltRe(get(doc[j], "alt", ""))

\* mutant: the except branch returns False
on_exception_false == FALSE

\* the except branch of contains_navigation (lines 707-709)
on_exception == TRUE

contains_navigation(doc, gone, i) ==
    IF i \notin gone /\ doc[i].nid \in raising
    THEN on_exception
    ELSE contains_navigation_heuristics(doc, gone, i)

\* mutant: src compared without .lower()
is_tracking_script_case_sensitive(n) ==
    \/ \E t \in trackers : Contains(get(n, "src", ""), t)
    \/ Contains(get(n, "id", ""), "utag")
    \/ text_contains(n.text, "BOOMR")

\* line 733-745: the tracking rule
is_tracking_script(n) ==
    \/ \E t \in trackers : Contains(Lower(get(n, "src", "")), t)
    \/ Contains(get(n, "id", ""), "utag")
    \/ text_contains(n.text, "BOOMR")

\* line 748: JSON-LD structured data
is_structured_data(n) == get(n, "type", None) = "application/ld+json"

\* line 751: inline tracking code
is_inline_tracking(n) == \E k \in inline_keywords : text_contains(n.text, k)

\* the if / elif / elif of lines 733-752
script_removed(n) ==
    IF is_tracking_script(n) THEN TRUE
    ELSE IF is_structured_data(n) THEN TRUE
    ELSE is_inline_tracking(n)

\* line 768
meta_removed(n) ==
    ~(get(n, "charset", "") # "" \/ get(n, "name", None) \in {"viewport", "charset"})

\* mutant: no guard
still_exists_unguarded(doc, gone, i) == TRUE

\* line 793, `element and element.attrs`: a Tag is truthy; a decomposed element has
\* lost its attributes (element.attrs is None), a live one of the list has a style
still_exists(doc, gone, i) == i \notin gone /\ doc[i].attrs # {}

\* lines 793-795: the liveness guard and the display:none test
display_none_removed(doc, gone, i) ==
    /\ still_exists(doc, gone, i)
    /\ DisplayNoneRe(Lower(get(doc[i], "style", "")))

meaningful_tags == {"img", "a", "h1", "h2", "h3", "h4", "h5", "h6"}

\* mutant: an element with a child element is never empty
is_empty_leaf(doc, gone, i) ==
    /\ no_text(doc, gone, i)
    /\ descendants(doc, gone, i) = {}

\* line 817
is_empty_container(doc, gone, i) ==
    /\ no_text(doc, gone, i)
    /\ ~\E j \in descendants(doc, gone, i) : doc[j].tag \in meaningful_tags

\* the test of each conditional removal loop, on the tree as it is when the
\* loop reaches the element
loop_test(kind, doc, gone, i) ==
    CASE kind = "header" -> ~contains_navigation(doc, gone, i)
      [] kind = "script" -> script_removed(doc[i])
      [] kind = "meta" -> meta_removed(doc[i])
      [] kind = "display" -> display_none_removed(doc, gone, i)
      [] kind = "empty" -> is_empty_container(doc, gone, i)

\* `for element in <list found beforehand>: if test(element): element.decompose()`
RECURSIVE for_each(_, _, _, _)
for_each(kind, doc, gone, todo) ==
    IF todo = {} THEN gone
    ELSE LET i == Min(todo)
         IN  for_each(kind, doc,
                      IF loop_test(kind, doc, gone, i) THEN decompose(doc, gone, i) ELSE gone,
                      todo \ {i})

\* soup.find_all(tag)
find_all_tag(doc, gone, tags) == {i \in Live(doc, gone) : doc[i].tag \in tags}

\* mutant: footer left out of the list
unwanted_tags_without_footer == <<"style", "iframe", "noscript">>

\* lines 712-717
unwanted_tags == <<"style", "footer", "iframe", "noscript">>

\* mutant: soup.find(tag) in place of soup.find_all(tag)
RECURSIVE remove_tags_first_only(_, _, _)
remove_tags_first_only(doc, gone, tags) ==
    IF tags = <<>> THEN gone
    ELSE LET hit == find_all_tag(doc, gone, {Head(tags)})
         IN  remove_tags_first_only(doc,
                 IF hit = {} THEN gone ELSE decompose(doc, gone, Min(hit)),
                 Tail(tags))

\* lines 719-721
RECURSIVE remove_tags(_, _, _)
remove_tags(doc, gone, tags) ==
    IF tags = <<>> THEN gone
    ELSE remove_tags(doc,
                     decompose_all(doc, gone, find_all_tag(doc, gone, {Head(tags)})),
                     Tail(tags))

remove_unwanted_tags(doc) == Compact(doc, remove_tags(doc, {}, unwanted_tags))

\* lines 724-726
filter_headers(doc) ==
    Compact(doc, for_each("header", doc, {}, find_all_tag(doc, {}, {"header"})))

\* lines 729-752
classify_scripts(doc) ==
    Compact(doc, for_each("script", doc, {}, find_all_tag(doc, {}, {"script"})))

\* soup.find_all('link', rel=[...]): a link one of whose rel tokens is listed
links_with_rel(doc, gone, rels) ==
    {i \in Live(doc, gone) :
        doc[i].tag = "link" /\ Tokens(get(doc[i], "rel", "")) \cap rels # {}}

\* mutant: the canonical and alternate links (lines 772-773) are left in the tree
remove_extensions_keep_canonical(doc) ==
    LET g1 == decompose_all(doc, {}, find_all_tag(doc, {},
                  {"grammarly-desktop-integration", "simplify-jobs-page-script"}))
        g2 == decompose_all(doc, g1,
                  {i \in Live(doc, g1) :
                      \/ \E t \in classes(doc[i]) : ExtensionRe(t)
                      \/ has_attr(doc[i], "class") /\ ExtensionRe(get(doc[i], "class", ""))})
        g3 == decompose_all(doc, g2, links_with_rel(doc, g2, {"preload", "prefetch"}))
        g4 == for_each("meta", doc, g3, find_all_tag(doc, g3, {"meta"}))
    IN  Compact(doc, g4)

\* lines 755-773: extension elements, preload links, meta tags, SEO links
remove_extensions_and_metadata(doc) ==
    LET g1 == decompose_all(doc, {}, find_all_tag(doc, {},
                  {"grammarly-desktop-integration", "simplify-jobs-page-script"}))
        g2 == decompose_all(doc, g1,
                  {i \in Live(doc, g1) :
                      \/ \E t \in classes(doc[i]) : ExtensionRe(t)
                      \/ has_attr(doc[i], "class") /\ ExtensionRe(get(doc[i], "class", ""))})
        g3 == decompose_all(doc, g2, links_with_rel(doc, g2, {"preload", "prefetch"}))
        g4 == for_each("meta", doc, g3, find_all_tag(doc, g3, {"meta"}))
        g5 == decompose_all(doc, g4, links_with_rel(doc, g4, {"canonical", "alternate"}))
    IN  Compact(doc, g5)

\* lines 777-780: soup.find(id=...) is the first element with the id only
RECURSIVE remove_ids(_, _, _)
remove_ids(doc, gone, ids) ==
    IF ids = <<>> THEN gone
    ELSE LET hit == {i \in Live(doc, gone) : get(doc[i], "id", None) = Head(ids)}
         IN  remove_ids(doc,
                        IF hit = {} THEN gone ELSE decompose(doc, gone, Min(hit)),
                        Tail(ids))

\* lines 783-785: find_all(class_=name) matches a class token (or the whole value)
RECURSIVE remove_classes(_, _, _)
remove_classes(doc, gone, names) ==
    IF names = <<>> THEN gone
    ELSE remove_classes(doc,
             decompose_all(doc, gone,
                 {i \in Live(doc, gone) :
                     Head(names) \in classes(doc[i]) \cup {get(doc[i], "class", None)}}),
             Tail(names))

\* lines 775-785
remove_cookie_banners(doc) ==
    LET g1 == remove_ids(doc, {},
                  <<"onetrust-consent-sdk", "onetrust-banner-sdk", "onetrust-pc-sdk">>)
    IN  Compact(doc, remove_classes(doc, g1, <<"cookie", "banner">>))

\* line 794 for the elements of the list, in order: element.get on a decomposed
\* element (attrs is None) raises AttributeError
RECURSIVE get_style_raises(_, _, _)
get_style_raises(doc, gone, todo) ==
    IF todo = {} THEN FALSE
    ELSE LET i == Min(todo)
         IN  IF still_exists(doc, gone, i) /\ i \in gone THEN TRUE
             ELSE get_style_raises(doc,
                      IF loop_test("display", doc, gone, i)
                      THEN decompose(doc, gone, i) ELSE gone,
                      todo \ {i})

\* lines 788-796: does the pass raise
remove_hidden_raises(doc) ==
    LET g1 == decompose_all(doc, {},
                  {i \in Live(doc, {}) : get(doc[i], "aria-hidden", None) = "true"})
    IN  get_style_raises(doc, g1, {i \in Live(doc, g1) : has_attr(doc[i], "style")})

\* lines 788-796
remove_hidden(doc) ==
    LET g1 == decompose_all(doc, {},
                  {i \in Live(doc, {}) : get(doc[i], "aria-hidden", None) = "true"})
    IN  Compact(doc, for_each("display", doc, g1,
                              {i \in Live(doc, g1) : has_attr(doc[i], "style")}))

\* lines 804-810
attrs_to_remove ==
    {"data-sl-aem-component", "data-sl-component", "data-cmp-hook-accordion",
     "data-bs-target", "data-bs-toggle", "data-bs-dismiss", "data-class",
     "data-class-icon", "data-parsley-validate", "data-parsley-error-message",
     "data-parsley-id", "data-parsley-pattern", "data-parsley-pattern-message",
     "data-parsley-required", "data-parsley-required-message", "data-single-expansion",
     "data-title", "data-fa-i2svg", "data-icon", "data-prefix", "data-cy",
     "data-grammarly-shadow-root"}

\* line 801
root_tags == {"body", "html", "head"}

\* mutant: the style attribute is deleted on body, html and head as well
strip_tag_root_styles(n) ==
    [n EXCEPT !.attrs = {p \in @ : p[1] # "style" /\ p[1] \notin attrs_to_remove}]

\* lines 801-813 for one tag
strip_tag(n) ==
    LET styled == IF n.tag \notin root_tags /\ has_attr(n, "style")
                  THEN del_attr(n, "style") ELSE n
    IN  [styled EXCEPT !.attrs = {p \in @ : p[1] \notin attrs_to_remove}]

\* lines 799-813
strip_attributes(doc) == [i \in 1..Len(doc) |-> strip_tag(doc[i])]

\* lines 816-818
remove_empty_containers(doc) ==
    Compact(doc, for_each("empty", doc, {}, find_all_tag(doc, {}, {"div", "span"})))

\* lines 711-818, the filter passes in the order the handler runs them
filter_pipeline(doc) ==
    remove_empty_containers(strip_attributes(remove_hidden(remove_cookie_banners(
        remove_extensions_and_metadata(classify_scripts(filter_headers(
            remove_unwanted_tags(doc))))))))

(***************************************************************************)
(* Extraction, prompt simplification, normalisation and splice             *)
(* (lines 538-648).                                                        *)
(***************************************************************************)
\* soup.find(...): the first element in document order that satisfies a test; 0
\* stands for None
first(S) == IF S = {} THEN 0 ELSE Min(S)

find_tag(doc, tag) == first({i \in 1..Len(doc) : doc[i].tag = tag})

find_attr(doc, a, v) == first({i \in 1..Len(doc) : get(doc[i], a, None) = v})

\* str(element): the element with its sub-tree, on its own
outer_html(doc, i) ==
    [k \in 1..(End(doc, i) - i + 1) |->
        [doc[i + k - 1] EXCEPT !.depth = @ - doc[i].depth + 1]]

\* mutant: id="main-content" is looked for before <main>
find_main_id_first(doc) ==
    IF find_attr(doc, "id", "main-content") # 0 THEN find_attr(doc, "id", "main-content")
    ELSE IF find_tag(doc, "main") # 0 THEN find_tag(doc, "main")
    ELSE find_attr(doc, "role", "main")

\* lines 541-545 and 617-621: main, then id="main-content", then role="main"
find_main(doc) ==
    IF find_tag(doc, "main") # 0 THEN find_tag(doc, "main")
    ELSE IF find_attr(doc, "id", "main-content") # 0 THEN find_attr(doc, "id", "main-content")
    ELSE find_attr(doc, "role", "main")

\* lines 549-552: the first canonical link, and its href if it has one
canonical_url(doc) ==
    LET canonical == first({i \in 1..Len(doc) :
                        doc[i].tag = "link" /\ "canonical" \in Tokens(get(doc[i], "rel", ""))})
    IN  IF canonical # 0 /\ get(doc[canonical], "href", "") # ""
        THEN get(doc[canonical], "href", "")
        ELSE None

\* mutant: the body is looked for before the other candidates
extract_main_body_first(doc) ==
    LET body == find_tag(doc, "body")
        at == IF body # 0 THEN body ELSE find_main(doc)
    IN  [at |-> at,
         html |-> IF at # 0 THEN outer_html(doc, at) ELSE doc,
         url |-> canonical_url(doc)]

\* lines 538-554.  `at` is the index of the element returned, 0 for the whole soup
extract_main_html_and_url(doc) ==
    LET main == find_main(doc)
        at == IF main # 0 THEN main ELSE find_tag(doc, "body")
    IN  [at |-> at,
         html |-> IF at # 0 THEN outer_html(doc, at) ELSE doc,
         url |-> canonical_url(doc)]

\* mutant: href is kept on every element that has one
simplify_tag_any_href(n) ==
    [n EXCEPT !.attrs = IF has_attr(n, "href")
                        THEN {<<"href", get(n, "href", "")>>}
                        ELSE {}]

\* lines 566-570 for one tag
simplify_tag(n) ==
    [n EXCEPT !.attrs = IF n.tag = "a" /\ has_attr(n, "href")
                        THEN {<<"href", get(n, "href", "")>>}
                        ELSE {}]

\* " ".join(s.split()) on a piece of the serialized document: every run of
\* whitespace becomes one space
Collapse(s) ==
    CASE s = "Hello   world" -> "Hello world"
      [] s = "https://x.test/a  b" -> "https://x.test/a b"
      [] s = "\n" -> " "
      [] OTHER -> s

\* line 573: the serialized document is split at whitespace and joined with single
\* spaces, inside the strings and inside the attribute values alike
collapse(n) ==
    [n EXCEPT !.attrs = {<<p[1], Collapse(p[2])>> : p \in @},
              !.text = [k \in 1..Len(@) |-> Collapse(@[k])]]

\* lines 556-573
simplify_html_for_prompt(doc) == [i \in 1..Len(doc) |-> collapse(simplify_tag(doc[i]))]

(***************************************************************************)
(* Markup.  A string of markup is the sequence of its tokens: start tags,  *)
(* end tags and character data.  BeautifulSoup(markup, "html.parser")      *)
(* feeds the tokens to a tree builder that keeps the stack of the open     *)
(* elements; str(element) writes a tree back as tokens.  The strings of    *)
(* the model hold no script, style or comment.                             *)
(***************************************************************************)
StartTag(tag, attrs) == [t |-> "start", tag |-> tag, attrs |-> attrs, data |-> ""]

EndTag(tag) == [t |-> "end", tag |-> tag, attrs |-> {}, data |-> ""]

Data(s) == [t |-> "data", tag |-> "", attrs |-> {}, data |-> s]

Max(S) == CHOOSE x \in S : \A y \in S : x >= y

\* the builder before the first token: no element, no open element, no top-level string
new_soup == [doc |-> <<>>, stack |-> <<>>, strings |-> <<>>]

\* a start tag: a new element below the innermost open element; an empty-element
\* tag is closed at once
handle_starttag(b, tok, base) ==
    [b EXCEPT !.doc = Append(@, Elem(base + Len(b.doc) + 1, Len(b.stack) + 1,
                                     tok.tag, tok.attrs, <<>>)),
              !.stack = IF tok.tag \in void_tags THEN @ ELSE Append(@, Len(b.doc) + 1)]

\* an end tag closes the innermost open element of that name and the elements
\* opened inside it; with no such element open the end tag is dropped
handle_endtag(b, tok) ==
    LET open == {k \in 1..Len(b.stack) : b.doc[b.stack[k]].tag = tok.tag}
    IN  IF open = {} THEN b ELSE [b EXCEPT !.stack = SubSeq(@, 1, Max(open) - 1)]

\* character data is a string of the innermost open element, or of the soup
handle_data(b, tok) ==
    IF b.stack = <<>> THEN [b EXCEPT !.strings = Append(@, tok.data)]
    ELSE [b EXCEPT !.doc[b.stack[Len(b.stack)]].text = Append(@, tok.data)]

RECURSIVE feed(_, _, _)
feed(b, markup, base) ==
    IF markup = <<>> THEN b
    ELSE LET tok == Head(markup)
         IN  feed(CASE tok.t = "start" -> handle_starttag(b, tok, base)
                    [] tok.t = "end" -> handle_endtag(b, tok)
                    [] tok.t = "data" -> handle_data(b, tok),
                  Tail(markup), base)

\* BeautifulSoup(markup, "html.parser"): the elements, with the nids base+1, base+2, ...
BeautifulSoup(markup, base) == feed(new_soup, markup, base).doc

\* the strings that are children of the soup object itself
soup_strings(markup) == feed(new_soup, markup, 0).strings

\* the end tags of a stack of open tags, innermost first
RECURSIVE end_tags(_)
end_tags(stack) ==
    IF stack = <<>> THEN <<>>
    ELSE <<EndTag(stack[Len(stack)])>> \o end_tags(SubSeq(stack, 1, Len(stack) - 1))

\* the markup of the elements i.. of a tree, `stack` being the tags open before i
RECURSIVE decode(_, _, _)
decode(doc, i, stack) ==
    IF i > Len(doc) THEN end_tags(stack)
    ELSE LET keep == doc[i].depth - 1
         IN  end_tags(SubSeq(stack, keep + 1, Len(stack)))
             \o <<StartTag(doc[i].tag, doc[i].attrs)>>
             \o [k \in 1..Len(doc[i].text) |-> Data(doc[i].text[k])]
             \o decode(doc, i + 1,
                       SubSeq(stack, 1, keep)
                       \o (IF doc[i].tag \in void_tags THEN <<>> ELSE <<doc[i].tag>>))

\* str(element), for the tree of the element
str(doc) == decode(doc, 1, <<>>)

\* line 608
wrapped(model_output) ==
    <<StartTag("main", {<<"class", "a11y-page">>, <<"role", "main">>})>>
    \o model_output \o <<EndTag("main")>>

\* mutant: an output without <main> is returned as it is
ensure_single_main_no_wrap(model_output) ==
    LET soup0 == BeautifulSoup(model_output, 0)
    IN  IF find_tag(soup0, "main") # 0
        THEN str(outer_html(soup0, find_tag(soup0, "main")))
        ELSE str(soup0)

\* lines 603-611
ensure_single_main_outer_html(model_output) ==
    LET soup0 == BeautifulSoup(model_output, 0)
        soup1 == BeautifulSoup(wrapped(model_output), 0)
    IN  IF find_tag(soup0, "main") # 0
        THEN str(outer_html(soup0, find_tag(soup0, "main")))
        ELSE str(outer_html(soup1, find_tag(soup1, "main")))

\* mutant: the element is replaced and its old contents are left behind
replace_with_keeps_contents(doc, i, block) ==
    SubSeq(doc, 1, i - 1)
    \o [k \in 1..Len(block) |-> [block[k] EXCEPT !.depth = @ + doc[i].depth - 1]]
    \o SubSeq(doc, i + 1, Len(doc))

\* main.replace_with(model_main), line 630
replace_with(doc, i, block) ==
    SubSeq(doc, 1, i - 1)
    \o [k \in 1..Len(block) |-> [block[k] EXCEPT !.depth = @ + doc[i].depth - 1]]
    \o SubSeq(doc, End(doc, i) + 1, Len(doc))

\* parent.insert(0, child) / parent.append(child): child becomes the element at `at`
insert_at(doc, at, n) == SubSeq(doc, 1, at - 1) \o <<n>> \o SubSeq(doc, at, Len(doc))

\* lines 639-641: the first style element with the id below the head is decomposed
remove_old_style(doc, head) ==
    LET old == first({j \in descendants(doc, {}, head) :
                    doc[j].tag = "style" /\ get(doc[j], "id", None) = "site-simplify-a11y"})
    IN  IF old # 0 THEN Compact(doc, decompose(doc, {}, old)) ELSE doc

\* lines 643-645: the fresh style element, appended to the head
append_style(doc, head) ==
    insert_at(doc, End(doc, head) + 1,
              Elem(901, doc[head].depth + 1, "style",
                   {<<"id", "site-simplify-a11y">>}, <<"ACCESSIBLE_CSS">>))

\* lines 632-645
inject_css(doc) ==
    LET head0 == find_tag(doc, "head")
        html == find_tag(doc, "html")
    IN  IF head0 = 0 /\ html = 0
        THEN [error |-> "AttributeError", doc |-> NoDoc]
        ELSE LET withhead == IF head0 # 0 THEN doc
                             ELSE insert_at(doc, html + 1,
                                      Elem(900, doc[html].depth + 1, "head", {}, <<>>))
                 head == IF head0 # 0 THEN head0 ELSE html + 1
                 cleared == remove_old_style(withhead, head)
             IN  [error |-> "none", doc |-> append_style(cleared, head)]

\* mutant: the replacement block is checked before the original
replace_main_malformed_first(original_html, new_main_outer_html) ==
    LET main == find_main(original_html)
        model_main == find_tag(new_main_outer_html, "main")
    IN  IF model_main = 0 THEN [error |-> "Malformed", doc |-> NoDoc]
        ELSE IF main = 0 THEN [error |-> "NotFound", doc |-> NoDoc]
        ELSE inject_css(replace_with(original_html, main,
                                     outer_html(new_main_outer_html, model_main)))

\* lines 614-648
replace_main_and_inject_css(original_html, new_main_outer_html) ==
    LET main == find_main(original_html)
        model_main == find_tag(new_main_outer_html, "main")
    IN  IF main = 0 THEN [error |-> "NotFound", doc |-> NoDoc]
        ELSE IF model_main = 0 THEN [error |-> "Malformed", doc |-> NoDoc]
        ELSE inject_css(replace_with(original_html, main,
                                     outer_html(new_main_outer_html, model_main)))

(***************************************************************************)
(* Documents.  html.parser accepts any nesting, except that an             *)
(* empty-element tag takes no content and that the content of script and   *)
(* style is character data.                                                *)
(***************************************************************************)
Kind(tag, attrs, text) == [tag |-> tag, attrs |-> attrs, text |-> text]

\* depth sequences of the forests with k elements, in document order
DepthSeqs(k) ==
    {d \in [1..k -> 1..k] :
        /\ k > 0 => d[1] = 1
        /\ \A i \in 1..(k - 1) : d[i + 1] <= d[i] + 1}

\* index of the parent element, 0 for a child of the soup object
Parent(doc, i) ==
    first({j \in 1..(i - 1) : doc[j].depth = doc[i].depth - 1 /\ i \in Subtree(doc, j)})

WellFormed(doc) ==
    \A i \in 1..Len(doc) :
        Parent(doc, i) # 0 => doc[Parent(doc, i)].tag \notin void_tags \cup cdata_tags

\* the document with the depths d and the element kinds `kinds`; the elements of
\* a parsed document get the nids base+1, base+2, ...
MakeDoc(d, kinds, base) ==
    [i \in 1..Len(d) |-> Elem(base + i, d[i], kinds[i].tag, kinds[i].attrs, kinds[i].text)]

PalHeaders ==
    {Kind("div", {}, <<>>),
     Kind("div", {<<"class", "main-menu">>}, <<>>),
     Kind("header", {}, <<>>),
     Kind("nav", {}, <<"Menu">>),
     Kind("footer", {}, <<>>),
     Kind("p", {<<"aria-hidden", "true">>}, <<"x">>),
     Kind("img", {<<"alt", "Company Logo">>}, <<>>),
     Kind("span", {}, <<"text">>)}

PalTags ==
    {Kind("style", {}, <<"body { margin: 0 }">>),
     Kind("footer", {}, <<"Contact">>),
     Kind("iframe", {<<"src", "https://cdn.example.com/app.js">>}, <<>>),
     Kind("noscript", {}, <<"Enable JavaScript">>),
     Kind("nav", {}, <<"Menu">>),
     Kind("div", {<<"class", "Logo">>}, <<"Home">>),
     Kind("img", {<<"alt", "Company Logo">>}, <<>>),
     Kind("header", {}, <<>>)}

PalScripts ==
    {Kind("script", {<<"src", "https://www.googletagmanager.com/gtm.js">>}, <<>>),
     Kind("script", {<<"src", "https://cdn.example.com/app.js">>}, <<>>),
     Kind("script", {<<"src", "https://CDN.example.com/Analytics.js">>}, <<>>),
     Kind("script", {<<"type", "application/ld+json">>}, <<"{}">>),
     Kind("script", {<<"type", "text/javascript">>}, <<"fbq('init', '1')">>),
     Kind("script", {<<"id", "utag_sync">>}, <<"var a = 1">>),
     Kind("script", {}, <<"window.BOOMR = {}">>),
     Kind("script", {<<"id", "app">>}, <<"var a = 1">>),
     Kind("div", {}, <<"text">>),
     Kind("footer", {}, <<>>)}

PalAttrs ==
    {Kind("div", {<<"class", "card">>, <<"style", "Display:Block">>,
                  <<"data-parsley-required", "true">>}, <<"Hello">>),
     Kind("html", {<<"style", "margin:0">>, <<"data-cy", "root">>}, <<>>),
     Kind("body", {<<"style", "margin:0">>, <<"class", "page">>}, <<>>),
     Kind("head", {<<"style", "margin:0">>}, <<>>),
     Kind("span", {<<"style", "DISPLAY : None">>, <<"class", "card">>}, <<"x">>),
     Kind("p", {<<"id", "k">>, <<"data-title", "t">>, <<"data-keep", "v">>}, <<"y">>),
     Kind("a", {<<"href", "https://x.test/page">>, <<"data-icon", "i">>,
                <<"class", "card main-menu">>}, <<>>)}

PalGeneral ==
    {Kind("html", {}, <<>>),
     Kind("head", {}, <<>>),
     Kind("body", {}, <<>>),
     Kind("main", {<<"id", "x">>}, <<"OLD">>),
     Kind("link", {<<"rel", "canonical">>, <<"href", "https://x.test/page">>}, <<>>),
     Kind("script", {<<"src", "https://www.googletagmanager.com/gtm.js">>}, <<>>),
     Kind("footer", {}, <<"Contact">>),
     Kind("p", {<<"aria-hidden", "true">>}, <<"x">>)}

\* what the content generator may answer: the required block, a block with text
\* around it, and an answer without the required root
ModelOutputs ==
    {<<StartTag("main", {<<"class", "a11y-page">>, <<"role", "main">>}), Data("NEW"),
       EndTag("main")>>,
     <<StartTag("p", {}), Data("Here is the page"), EndTag("p"),
       StartTag("main", {<<"class", "a11y-page">>, <<"role", "main">>}), Data("NEW"),
       StartTag("p", {}), Data("More"), EndTag("p"), EndTag("main")>>,
     <<StartTag("section", {<<"class", "a11y-card">>}), Data("NEW"), EndTag("section")>>}

\* the blocks replace_main_and_inject_css may be handed, as line 625 parses them
ReplacementBlocks == {BeautifulSoup(out, 100) : out \in ModelOutputs}

(***************************************************************************)
(* The handler clean_html (lines 664-849), one action per step.            *)
(***************************************************************************)
\* doc is a document of at most n elements over a palette of element kinds
IsInput(doc, palette, n) ==
    \E k \in 0..n : \E d \in DepthSeqs(k) : \E kinds \in [1..k -> palette] :
        /\ WellFormed(MakeDoc(d, kinds, 0))
        /\ doc = MakeDoc(d, kinds, 0)

InitWith(palette) ==
    /\ IsInput(html_to_clean, palette, MaxNodes)
    /\ raising \in SUBSET {html_to_clean[i].nid : i \in find_all_tag(html_to_clean, {}, {"header"})}
    /\ soup = html_to_clean
    /\ cleaned_html = NoDoc
    /\ user_prompt = NoDoc
    /\ pc = "tags"
    /\ main_html = NoDoc
    /\ url = None
    /\ raw_model_output = NoDoc
    /\ new_main_outer = NoDoc
    /\ final_html = NoDoc
    /\ error = "none"
    /\ splices = 0

Init == InitWith(PalGeneral)

\* a filter pass: the tree is changed in place and the handler moves on
Pass(at, result, next) ==
    /\ pc = at
    /\ soup' = result
    /\ pc' = next
    /\ UNCHANGED <<html_to_clean, raising, cleaned_html, user_prompt, main_html, url,
                   raw_model_output, new_main_outer, final_html, error, splices>>

RemoveUnwantedTags == Pass("tags", remove_unwanted_tags(soup), "headers")

FilterHeaders == Pass("headers", filter_headers(soup), "scripts")

ClassifyScripts == Pass("scripts", classify_scripts(soup), "extensions")

RemoveExtensionsAndMetadata ==
    Pass("extensions", remove_extensions_and_metadata(soup), "cookies")

RemoveCookieBanners == Pass("cookies", remove_cookie_banners(soup), "hidden")

\* lines 787-796; an exception of the pass ends the request
RemoveHidden ==
    IF remove_hidden_raises(soup)
    THEN /\ pc = "hidden"
         /\ pc' = "failed"
         /\ error' = "AttributeError"
         /\ UNCHANGED <<html_to_clean, raising, soup, cleaned_html, user_prompt, main_html,
                        url, raw_model_output, new_main_outer, final_html, splices>>
    ELSE Pass("hidden", remove_hidden(soup), "attributes")

StripAttributes == Pass("attributes", strip_attributes(soup), "empties")

RemoveEmptyContainers == Pass("empties", remove_empty_containers(soup), "prettify")

\* soup.prettify() puts every tag and every string on a line of its own: parsed
\* again, each element that can hold content holds blank strings around its own
prettify(doc) ==
    [i \in 1..Len(doc) |->
        IF doc[i].tag \in void_tags THEN doc[i]
        ELSE [doc[i] EXCEPT !.text = <<"\n">> \o @ \o <<"\n">>]]

\* line 821
Prettify ==
    /\ pc = "prettify"
    /\ cleaned_html' = prettify(soup)
    /\ pc' = "api_key"
    /\ UNCHANGED <<html_to_clean, raising, soup, user_prompt, main_html, url,
                   raw_model_output, new_main_outer, final_html, error, splices>>

\* line 829: require_api_key raises when OPENAI_API_KEY is not set
RequireApiKey ==
    /\ pc = "api_key"
    /\ \E key_set \in BOOLEAN :
          IF key_set THEN pc' = "extract" /\ error' = error
          ELSE pc' = "failed" /\ error' = "RuntimeError"
    /\ UNCHANGED <<html_to_clean, raising, soup, cleaned_html, user_prompt, main_html, url,
                   raw_model_output, new_main_outer, final_html, splices>>

\* line 832
ExtractMain ==
    /\ pc = "extract"
    /\ main_html' = extract_main_html_and_url(cleaned_html).html
    /\ url' = extract_main_html_and_url(cleaned_html).url
    /\ pc' = "prompt"
    /\ UNCHANGED <<html_to_clean, raising, soup, cleaned_html, user_prompt,
                   raw_model_output, new_main_outer, final_html, error, splices>>

\* line 835: build_user_prompt is handed cleaned_html
BuildPrompt ==
    /\ pc = "prompt"
    /\ user_prompt' = simplify_html_for_prompt(cleaned_html)
    /\ pc' = "model"
    /\ UNCHANGED <<html_to_clean, raising, soup, cleaned_html, main_html, url,
                   raw_model_output, new_main_outer, final_html, error, splices>>

\* line 836: the content generator answers, or the call raises
CallModel ==
    /\ pc = "model"
    /\ \/ \E out \in ModelOutputs :
             /\ raw_model_output' = out
             /\ pc' = "normalize"
             /\ error' = error
       \/ /\ raw_model_output' = raw_model_output
          /\ pc' = "failed"
          /\ error' = "APIError"
    /\ UNCHANGED <<html_to_clean, raising, soup, cleaned_html, user_prompt, main_html, url,
                   new_main_outer, final_html, splices>>

\* line 839; new_main_outer holds the markup returned as line 625 parses it
Normalize ==
    /\ pc = "normalize"
    /\ new_main_outer' = BeautifulSoup(ensure_single_main_outer_html(raw_model_output), 100)
    /\ pc' = "splice"
    /\ UNCHANGED <<html_to_clean, raising, soup, cleaned_html, user_prompt, main_html, url,
                   raw_model_output, final_html, error, splices>>

\* mutant: the splice into the filtered tree
SpliceFilteredTree ==
    /\ pc = "splice"
    /\ LET r == replace_main_and_inject_css(soup, new_main_outer)
       IN  /\ final_html' = r.doc
           /\ error' = r.error
           /\ pc' = IF r.error = "none" THEN "done" ELSE "failed"
    /\ splices' = splices + 1
    /\ UNCHANGED <<html_to_clean, raising, soup, cleaned_html, user_prompt, main_html, url,
                   raw_model_output, new_main_outer>>

\* line 842: the splice into a fresh parse of the submitted HTML
Splice ==
    /\ pc = "splice"
    /\ LET r == replace_main_and_inject_css(html_to_clean, new_main_outer)
       IN  /\ final_html' = r.doc
           /\ error' = r.error
           /\ pc' = IF r.error = "none" THEN "done" ELSE "failed"
    /\ splices' = splices + 1
    /\ UNCHANGED <<html_to_clean, raising, soup, cleaned_html, user_prompt, main_html, url,
                   raw_model_output, new_main_outer>>

Next ==
    \/ RemoveUnwantedTags
    \/ FilterHeaders
    \/ ClassifyScripts
    \/ RemoveExtensionsAndMetadata
    \/ RemoveCookieBanners
    \/ RemoveHidden
    \/ StripAttributes
    \/ RemoveEmptyContainers
    \/ Prettify
    \/ RequireApiKey
    \/ ExtractMain
    \/ BuildPrompt
    \/ CallModel
    \/ Normalize
    \/ Splice

Spec == Init /\ [][Next]_vars

\* the handler on the documents that exercise the header filter
InitHeaders == InitWith(PalHeaders)
SpecHeaders == InitHeaders /\ [][Next]_vars

\* the handler on the documents that exercise the tag denylist
InitTags == InitWith(PalTags)
SpecTags == InitTags /\ [][Next]_vars

\* the handler on the documents that exercise the script classifier
InitScripts == InitWith(PalScripts)
SpecScripts == InitScripts /\ [][Next]_vars

\* the handler on the documents that exercise the attribute pass
InitAttrs == InitWith(PalAttrs)
SpecAttrs == InitAttrs /\ [][Next]_vars

\* the handler on the documents in which one pass changes what another one sees
PalPipeline ==
    {Kind("div", {}, <<>>),
     Kind("div", {<<"class", "main-menu">>}, <<>>),
     Kind("header", {}, <<"Site">>),
     Kind("span", {<<"style", "color:red; display: none">>}, <<"x">>),
     Kind("p", {<<"aria-hidden", "true">>}, <<"x">>),
     Kind("script", {<<"src", "https://www.googletagmanager.com/gtm.js">>}, <<>>),
     Kind("div", {<<"id", "onetrust-banner-sdk">>}, <<"We use cookies">>),
     Kind("footer", {}, <<"Contact">>),
     Kind("span", {<<"class", "promo cookie">>}, <<"text">>)}

InitPipeline == InitWith(PalPipeline)
SpecPipeline == InitPipeline /\ [][Next]_vars

(***************************************************************************)
(* replace_main_and_inject_css on its own: any original, any replacement   *)
(* block, and each output spliced again.                                   *)
(***************************************************************************)
PalSplice ==
    {Kind("html", {}, <<>>),
     Kind("head", {}, <<>>),
     Kind("style", {<<"id", "site-simplify-a11y">>}, <<"ACCESSIBLE_CSS">>),
     Kind("main", {<<"id", "x">>}, <<"OLD">>),
     Kind("div", {<<"id", "main-content">>}, <<"OLD">>),
     Kind("p", {<<"role", "main">>}, <<"text">>)}

\* an html element, when there is one, is the root element of the document
HtmlIsRoot(doc) == \A i \in 1..Len(doc) : doc[i].tag = "html" => i = 1

InitSplice ==
    /\ IsInput(html_to_clean, PalSplice, MaxOrigNodes)
    /\ HtmlIsRoot(html_to_clean)
    /\ new_main_outer \in ReplacementBlocks
    /\ raising = {}
    /\ soup = NoDoc
    /\ cleaned_html = NoDoc
    /\ user_prompt = NoDoc
    /\ pc = "splice"
    /\ main_html = NoDoc
    /\ url = None
    /\ raw_model_output = NoDoc
    /\ final_html = NoDoc
    /\ error = "none"
    /\ splices = 0

\* the output of a splice is the original of the next one
SpliceAgain ==
    /\ pc = "done"
    /\ splices < MaxSplices
    /\ html_to_clean' = final_html
    /\ new_main_outer' \in ReplacementBlocks
    /\ pc' = "splice"
    /\ UNCHANGED <<raising, soup, cleaned_html, user_prompt, main_html, url,
                   raw_model_output, final_html, error, splices>>

NextSplice == Splice \/ SpliceAgain

SpecSplice == InitSplice /\ [][NextSplice]_vars

(***************************************************************************)
(* extract_main_html_and_url on its own: any document.                     *)
(***************************************************************************)
PalExtract ==
    {Kind("main", {}, <<"Content">>),
     Kind("div", {<<"id", "main-content">>}, <<>>),
     Kind("section", {<<"role", "main">>}, <<>>),
     Kind("body", {}, <<>>),
     Kind("p", {<<"id", "intro">>, <<"role", "note">>}, <<"text">>),
     Kind("link", {<<"rel", "canonical">>}, <<>>),
     Kind("link", {<<"rel", "canonical">>, <<"href", "https://x.test/page">>}, <<>>),
     Kind("link", {<<"rel", "alternate stylesheet">>, <<"href", "https://x.test/alt">>}, <<>>)}

InitExtract ==
    /\ IsInput(cleaned_html, PalExtract, MaxNodes)
    /\ html_to_clean = NoDoc
    /\ raising = {}
    /\ soup = NoDoc
    /\ user_prompt = NoDoc
    /\ pc = "extract"
    /\ main_html = NoDoc
    /\ url = None
    /\ raw_model_output = NoDoc
    /\ new_main_outer = NoDoc
    /\ final_html = NoDoc
    /\ error = "none"
    /\ splices = 0

NextExtract == ExtractMain

SpecExtract == InitExtract /\ [][NextExtract]_vars

(***************************************************************************)
(* ensure_single_main_outer_html and the splice that follows it (lines     *)
(* 839-842): any answer of the content generator, well formed or not.      *)
(***************************************************************************)
PalTokens ==
    {StartTag("main", {<<"class", "a11y-page">>, <<"role", "main">>}),
     StartTag("main", {}),
     EndTag("main"),
     StartTag("p", {}),
     EndTag("p"),
     StartTag("br", {}),
     Data("NEW")}

\* the submitted pages of this specification: one with a <main>, one without a
\* main-content candidate
Pages ==
    {MakeDoc(<<1, 2, 2, 3>>,
             <<Kind("html", {}, <<>>), Kind("head", {}, <<>>), Kind("body", {}, <<>>),
               Kind("main", {<<"id", "x">>}, <<"OLD">>)>>, 0),
     MakeDoc(<<1, 2>>, <<Kind("html", {}, <<>>), Kind("body", {}, <<"OLD">>)>>, 0)}

InitNormalize ==
    /\ html_to_clean \in Pages
    /\ raw_model_output \in UNION {[1..k -> PalTokens] : k \in 0..MaxTokens}
    /\ raising = {}
    /\ soup = NoDoc
    /\ cleaned_html = NoDoc
    /\ user_prompt = NoDoc
    /\ pc = "normalize"
    /\ main_html = NoDoc
    /\ url = None
    /\ new_main_outer = NoDoc
    /\ final_html = NoDoc
    /\ error = "none"
    /\ splices = 0

NextNormalize == Normalize \/ Splice

SpecNormalize == InitNormalize /\ [][NextNormalize]_vars

(***************************************************************************)
(* simplify_html_for_prompt on its own (line 835): any document.           *)
(***************************************************************************)
PalSimplify ==
    {Kind("a", {<<"href", "https://x.test/page">>, <<"class", "card">>,
                <<"data-keep", "v">>}, <<"Read more">>),
     Kind("a", {<<"href", "https://x.test/a  b">>, <<"id", "k">>}, <<>>),
     Kind("a", {<<"class", "card">>}, <<"\n">>),
     Kind("p", {<<"class", "card main-menu">>}, <<"Hello   world">>),
     Kind("link", {<<"rel", "alternate stylesheet">>, <<"href", "https://x.test/alt">>}, <<>>),
     Kind("img", {<<"alt", "Company Logo">>}, <<>>),
     Kind("main", {<<"id", "x">>}, <<"OLD">>)}

InitSimplify ==
    /\ IsInput(cleaned_html, PalSimplify, MaxNodes)
    /\ html_to_clean = NoDoc
    /\ raising = {}
    /\ soup = NoDoc
    /\ user_prompt = NoDoc
    /\ pc = "prompt"
    /\ main_html = NoDoc
    /\ url = None
    /\ raw_model_output = NoDoc
    /\ new_main_outer = NoDoc
    /\ final_html = NoDoc
    /\ error = "none"
    /\ splices = 0

NextSimplify == BuildPrompt

SpecSimplify == InitSimplify /\ [][NextSimplify]_vars

(***************************************************************************)
(* The handler on the submitted documents the filter passes leave as they  *)
(* are: the extractor and the splicer then search the same document.       *)
(***************************************************************************)
PalCandidate ==
    {Kind("html", {}, <<>>),
     Kind("body", {}, <<>>),
     Kind("main", {<<"id", "x">>}, <<"OLD">>),
     Kind("div", {<<"id", "main-content">>}, <<"OLD">>),
     Kind("section", {<<"role", "main">>}, <<"text">>),
     Kind("p", {<<"id", "intro">>, <<"role", "note">>}, <<"text">>)}

InitCandidate == InitWith(PalCandidate) /\ HtmlIsRoot(html_to_clean)

SpecCandidate == InitCandidate /\ [][Next]_vars

\* the handler on the documents that exercise the empty-container pass
PalEmpties ==
    {Kind("div", {}, <<>>),
     Kind("span", {}, <<"\n">>),
     Kind("div", {<<"class", "card">>}, <<"Hello">>),
     Kind("p", {}, <<>>),
     Kind("img", {<<"alt", "Company Logo">>}, <<>>),
     Kind("script", {<<"id", "app">>}, <<"var a = 1">>),
     Kind("h2", {}, <<>>)}

InitEmpties == InitWith(PalEmpties)
SpecEmpties == InitEmpties /\ [][Next]_vars

\* the handler on the documents that exercise the hidden-element pass
PalHidden ==
    {Kind("div", {<<"style", "display:none">>}, <<>>),
     Kind("span", {<<"style", "DISPLAY : None">>, <<"class", "card">>}, <<"x">>),
     Kind("p", {<<"style", "Display:Block">>}, <<"y">>),
     Kind("div", {<<"style", "color:red; display: none">>}, <<"text">>),
     Kind("p", {<<"aria-hidden", "true">>}, <<"x">>),
     Kind("section", {<<"style", "">>}, <<"text">>),
     Kind("div", {<<"class", "card">>}, <<"Hello">>)}

InitHidden == InitWith(PalHidden)
SpecHidden == InitHidden /\ [][Next]_vars

\* the handler on the documents that exercise the link and meta passes
PalCanonical ==
    {Kind("link", {<<"rel", "canonical">>, <<"href", "https://x.test/page">>}, <<>>),
     Kind("link", {<<"rel", "canonical">>}, <<>>),
     Kind("link", {<<"rel", "alternate stylesheet">>, <<"href", "https://x.test/alt">>}, <<>>),
     Kind("link", {<<"rel", "stylesheet">>, <<"href", "https://x.test/alt">>}, <<>>),
     Kind("meta", {<<"name", "viewport">>}, <<>>),
     Kind("head", {}, <<>>),
     Kind("main", {<<"id", "x">>}, <<"OLD">>)}

InitCanonical == InitWith(PalCanonical)
SpecCanonical == InitCanonical /\ [][Next]_vars

\* the handler on the documents in which the filter passes remove elements around
\* the main content
PalResponse ==
    {Kind("html", {}, <<>>),
     Kind("head", {}, <<>>),
     Kind("style", {<<"id", "site-simplify-a11y">>}, <<"body { margin: 0 }">>),
     Kind("main", {<<"id", "x">>}, <<"OLD">>),
     Kind("script", {<<"src", "https://www.googletagmanager.com/gtm.js">>}, <<>>),
     Kind("footer", {}, <<"Contact">>),
     Kind("p", {<<"aria-hidden", "true">>}, <<"x">>)}

InitResponse == InitWith(PalResponse) /\ HtmlIsRoot(html_to_clean)
SpecResponse == InitResponse /\ [][Next]_vars

(***************************************************************************)
(* Properties.                                                             *)
(***************************************************************************)
nids(doc) == {doc[i].nid : i \in 1..Len(doc)}

\* the class passes of remove_cookie_banners alone (lines 783-785)
remove_cookie_classes(doc) == Compact(doc, remove_classes(doc, {}, <<"cookie", "banner">>))

\* C1 as claimed: run on the output of the pipeline, the tag, header, script,
\* hidden-element and attribute filters remove no further element and no further
\* attribute (the filters the claim names for F(F(D)) = F(D)).
C1_Idempotent ==
    (pc = "api_key" /\ raising = {}) =>
        /\ remove_unwanted_tags(cleaned_html) = cleaned_html
        /\ filter_headers(cleaned_html) = cleaned_html
        /\ classify_scripts(cleaned_html) = cleaned_html
        /\ remove_hidden(cleaned_html) = cleaned_html
        /\ strip_attributes(cleaned_html) = cleaned_html

\* C1 as amended: on the output of the pipeline, the tag, script, extension and
\* metadata, cookie-class, hidden-element, attribute and empty-container passes each
\* remove nothing further.  (The header filter can: a header kept for a menu-classed
\* descendant loses it to a later pass; and the cookie ids are removed one element
\* per run.)
C1_PassesIdempotent ==
    pc = "api_key" =>
        /\ remove_unwanted_tags(cleaned_html) = cleaned_html
        /\ classify_scripts(cleaned_html) = cleaned_html
        /\ remove_extensions_and_metadata(cleaned_html) = cleaned_html
        /\ remove_cookie_classes(cleaned_html) = cleaned_html
        /\ remove_hidden(cleaned_html) = cleaned_html
        /\ strip_attributes(cleaned_html) = cleaned_html
        /\ remove_empty_containers(cleaned_html) = cleaned_html

\* C1 witness: the pipeline has removed elements and has left some
C1_Witness ==
    /\ pc = "api_key"
    /\ Len(cleaned_html) > 1
    /\ Len(cleaned_html) < Len(html_to_clean)
    /\ \E i \in 1..Len(cleaned_html) : cleaned_html[i].tag = "div"

\* the child elements of the element at i
children(doc, i) == {j \in Subtree(doc, i) : j # i /\ doc[j].depth = doc[i].depth + 1}

\* a header with a nav child
HeaderWithNavChild(doc, i) ==
    doc[i].tag = "header" /\ \E j \in children(doc, i) : doc[j].tag = "nav"

\* C2 as claimed: for every header with a nav child in the document,
\* contains_navigation returns true and the header is still in the tree after the
\* whole filter pipeline.
C2_HeaderSurvivesPipeline ==
    (pc = "prettify" /\ raising = {}) =>
        \A i \in 1..Len(html_to_clean) :
            HeaderWithNavChild(html_to_clean, i) =>
                /\ contains_navigation(html_to_clean, {}, i)
                /\ html_to_clean[i].nid \in nids(soup)

\* C2 as amended: for every header with a nav child, contains_navigation returns
\* true and the header filter does not remove it: a header that is in the tree when
\* the header filter starts is in the tree when it ends.  (The tag, cookie, hidden and
\* empty-container passes can still remove it, alone or with an ancestor.)
C2_HeaderSurvivesHeaderFilter ==
    [][pc = "headers" =>
          \A i \in 1..Len(soup) :
              HeaderWithNavChild(soup, i) =>
                  /\ contains_navigation(soup, {}, i)
                  /\ soup[i].nid \in nids(soup')]_vars

\* C2 witness: the header filter has run, has removed a header, and has kept a
\* header whose only navigation is a nav child
C2_Witness ==
    /\ pc = "scripts"
    /\ \E i \in 1..Len(html_to_clean) :
          html_to_clean[i].tag = "header" /\ html_to_clean[i].nid \notin nids(soup)
    /\ \E i \in 1..Len(soup) :
          /\ HeaderWithNavChild(soup, i)
          /\ ~contains_navigation_no_nav(soup, {}, i)

\* the elements decomposed when the header loop reaches the header at i
gone_before(doc, i) ==
    for_each("header", doc, {}, {j \in find_all_tag(doc, {}, {"header"}) : j < i})

\* evaluating contains_navigation on the header at i raises
Raises(doc, i) ==
    /\ doc[i].tag = "header"
    /\ doc[i].nid \in raising
    /\ i \notin gone_before(doc, i)

\* C3: whenever the evaluation of contains_navigation on a header raises, the
\* predicate returns True, the handler goes on without an error, and the header
\* filter keeps the header.
C3_FailOpen ==
    [][pc = "headers" =>
          \A i \in 1..Len(soup) :
              Raises(soup, i) =>
                  /\ contains_navigation(soup, gone_before(soup, i), i)
                  /\ soup[i].nid \in nids(soup')
                  /\ error' = "none"
                  /\ pc' = "scripts"]_vars

\* C3 witness: the header filter has kept a header on which the evaluation raised
\* and in which the heuristics find no navigation, and has removed another header
C3_Witness ==
    /\ pc = "scripts"
    /\ \E i \in 1..Len(soup) :
          /\ soup[i].tag = "header"
          /\ soup[i].nid \in raising
          /\ ~contains_navigation_heuristics(soup, {}, i)
    /\ \E i \in 1..Len(html_to_clean) :
          html_to_clean[i].tag = "header" /\ html_to_clean[i].nid \notin nids(soup)

\* the three rules of the script classifier, as the claim words them
Rule1(n) ==
    \/ \E t \in trackers : Contains(Lower(get(n, "src", "")), t)
    \/ Contains(get(n, "id", ""), "utag")
    \/ text_contains(n.text, "BOOMR")
Rule2(n) == has_attr(n, "type") /\ get(n, "type", "") = "application/ld+json"
Rule3(n) == \E k \in inline_keywords : text_contains(n.text, k)

\* C4: the script pass removes a script element if and only if one of the three
\* rules matches it, and leaves every other element in place unchanged.
C4_ScriptClassifier ==
    [][pc = "scripts" =>
          soup' = SelectSeq(soup,
                      LAMBDA n : ~(n.tag = "script" /\ (Rule1(n) \/ Rule2(n) \/ Rule3(n))))]_vars

\* C4 witness: the script pass has removed the tag-manager script and a script
\* whose src matches only once lower-cased, and has kept the application script
C4_Witness ==
    /\ pc = "extensions"
    /\ \E i \in 1..Len(html_to_clean) :
          /\ get(html_to_clean[i], "src", "") = "https://www.googletagmanager.com/gtm.js"
          /\ html_to_clean[i].depth = 1
          /\ html_to_clean[i].nid \notin nids(soup)
    /\ \E i \in 1..Len(html_to_clean) :
          /\ get(html_to_clean[i], "src", "") = "https://CDN.example.com/Analytics.js"
          /\ html_to_clean[i].depth = 1
          /\ html_to_clean[i].nid \notin nids(soup)
    /\ \E i \in 1..Len(soup) :
          /\ soup[i].tag = "script"
          /\ get(soup[i], "src", "") = "https://cdn.example.com/app.js"

\* C5: after the attribute pass no element other than html, body and head carries
\* a style attribute and no element carries a denylisted attribute; the pass removes
\* no element and deletes no other attribute, so every class attribute is kept.
C5_AttributeStripping ==
    [][pc = "attributes" =>
          /\ Len(soup') = Len(soup)
          /\ \A i \in 1..Len(soup) :
                /\ soup'[i].tag \notin {"html", "body", "head"} => ~has_attr(soup'[i], "style")
                /\ \A a \in attrs_to_remove : ~has_attr(soup'[i], a)
                /\ soup'[i].attrs \subseteq soup[i].attrs
                /\ \A p \in soup[i].attrs \ soup'[i].attrs :
                      \/ p[1] \in attrs_to_remove
                      \/ p[1] = "style" /\ soup[i].tag \notin {"html", "body", "head"}
                /\ [soup'[i] EXCEPT !.attrs = {}] = [soup[i] EXCEPT !.attrs = {}]]_vars

\* C5 witness: the attribute pass has run on an element with a style, a
\* data-parsley-required and a class attribute, which keeps the class alone, and on
\* a body that keeps its style
C5_Witness ==
    /\ pc = "empties"
    /\ \E i \in 1..Len(html_to_clean) : \E j \in 1..Len(soup) :
          /\ soup[j].nid = html_to_clean[i].nid
          /\ has_attr(html_to_clean[i], "style")
          /\ has_attr(html_to_clean[i], "data-parsley-required")
          /\ soup[j].attrs = {<<"class", "card">>}
    /\ \E j \in 1..Len(soup) : soup[j].tag = "body" /\ has_attr(soup[j], "style")

\* C6: once the tag pass has run, and so after the filter pipeline, the tree holds
\* no style, footer, iframe or noscript element, whatever a footer contains.
C6_TagDenylist ==
    pc # "tags" =>
        \A i \in 1..Len(soup) : soup[i].tag \notin {"style", "footer", "iframe", "noscript"}

\* C6 witness: the pipeline has run on a document with a footer that holds a nav,
\* and has left other elements
C6_Witness ==
    /\ pc = "prettify"
    /\ \E i \in 1..Len(html_to_clean) :
          /\ html_to_clean[i].tag = "footer"
          /\ \E j \in descendants(html_to_clean, {}, i) : html_to_clean[j].tag = "nav"
    /\ Len(soup) > 0

\* the elements of each class of main-content candidates, by priority
Mains(doc) == {i \in 1..Len(doc) : doc[i].tag = "main"}
MainContents(doc) ==
    {i \in 1..Len(doc) : has_attr(doc[i], "id") /\ get(doc[i], "id", "") = "main-content"}
RoleMains(doc) ==
    {i \in 1..Len(doc) : has_attr(doc[i], "role") /\ get(doc[i], "role", "") = "main"}
Bodies(doc) == {i \in 1..Len(doc) : doc[i].tag = "body"}

\* the main-content candidate: the first element of the first class that is not
\* empty, 0 when all are
Candidate(doc) ==
    IF Mains(doc) # {} THEN Min(Mains(doc))
    ELSE IF MainContents(doc) # {} THEN Min(MainContents(doc))
    ELSE IF RoleMains(doc) # {} THEN Min(RoleMains(doc))
    ELSE 0

\* the injected style element
InjectedStyle(n) == n.tag = "style" /\ has_attr(n, "id") /\ get(n, "id", "") = "site-simplify-a11y"

\* indices of the injected style elements below the first head of the document
HeadStyles(doc) ==
    IF find_tag(doc, "head") = 0 THEN {}
    ELSE {j \in descendants(doc, {}, find_tag(doc, "head")) : InjectedStyle(doc[j])}

\* the document without the injected style elements of its head
WithoutHeadStyles(doc) == Compact(doc, HeadStyles(doc))

\* the original with the sub-tree of its candidate replaced by the sub-tree of the
\* first main of the block, every other element as it was
Replaced(original, block) ==
    LET c == Candidate(original)
        m == Min(Mains(block))
    IN  SubSeq(original, 1, c - 1)
        \o [k \in 1..(End(block, m) - m + 1) |->
               [block[m + k - 1] EXCEPT !.depth = @ - block[m].depth + original[c].depth]]
        \o SubSeq(original, End(original, c) + 1, Len(original))

\* C7: when the splice succeeds, the output is the original with the candidate
\* replaced by the <main> of the block; apart from the injected style elements of
\* the head (and a head created as first child of html when there was none), every
\* other element is unchanged in content and order.
C7_SpliceFrame ==
    pc = "done" =>
        LET expected == Replaced(html_to_clean, new_main_outer)
            out == WithoutHeadStyles(final_html)
            head == find_tag(out, "head")
        IN  IF find_tag(expected, "head") # 0
            THEN out = WithoutHeadStyles(expected)
            ELSE /\ head # 0
                 /\ out[head - 1].tag = "html"
                 /\ out[head].depth = out[head - 1].depth + 1
                 /\ out[head].attrs = {}
                 /\ Compact(out, {head}) = expected

\* C7 witness: a splice has succeeded on an original with elements before, around
\* and after the candidate, the candidate had contents and the block had text
\* around its <main>
C7_Witness ==
    /\ pc = "done"
    /\ Candidate(html_to_clean) > 2
    /\ End(html_to_clean, Candidate(html_to_clean)) > Candidate(html_to_clean)
    /\ End(html_to_clean, Candidate(html_to_clean)) < Len(html_to_clean)
    /\ Len(new_main_outer) = 3

\* C8 as claimed: after a successful splice the head holds exactly one style element
\* with id site-simplify-a11y, and it holds the CSS payload.
C8_SingleInjectedStyle ==
    pc = "done" =>
        /\ Cardinality(HeadStyles(final_html)) = 1
        /\ \A j \in HeadStyles(final_html) : final_html[j].text = <<"ACCESSIBLE_CSS">>

\* C9: the splice fails with NotFound exactly when the original has no candidate,
\* and otherwise with Malformed exactly when the block has no <main>; a failed
\* splice returns no document.
C9_SpliceErrors ==
    pc \in {"done", "failed"} =>
        /\ error = "NotFound" <=> Candidate(html_to_clean) = 0
        /\ error = "Malformed" <=>
              (Candidate(html_to_clean) # 0 /\ Mains(new_main_outer) = {})
        /\ error # "none" => (pc = "failed" /\ final_html = NoDoc)
        /\ error = "none" => pc = "done"

\* C9 witness: a splice has failed on an original without a candidate and a block
\* without a <main>
C9_Witness ==
    /\ pc = "failed"
    /\ error = "NotFound"
    /\ Len(html_to_clean) > 0
    /\ Mains(new_main_outer) = {}

\* the element the extractor is to return: the index of the candidate, else of the
\* first body, else 0 for the whole document
ExtractedAt(doc) ==
    IF Candidate(doc) # 0 THEN Candidate(doc)
    ELSE IF Bodies(doc) # {} THEN Min(Bodies(doc))
    ELSE 0

ExtractedMain(doc) ==
    IF ExtractedAt(doc) = 0 THEN doc
    ELSE LET i == ExtractedAt(doc)
         IN  [k \in 1..(End(doc, i) - i + 1) |->
                [doc[i + k - 1] EXCEPT !.depth = @ - doc[i].depth + 1]]

Canonicals(doc) ==
    {i \in 1..Len(doc) : doc[i].tag = "link" /\ "canonical" \in Tokens(get(doc[i], "rel", ""))}

HasHref(n) == has_attr(n, "href") /\ get(n, "href", "") # ""

\* C10 as claimed: the extractor returns the first element of the highest-priority
\* class that is not empty, and the href of the first canonical link that has a
\* non-empty href, None when there is none.
C10_ExtractFirstWithHref ==
    pc = "prompt" =>
        /\ main_html = ExtractedMain(cleaned_html)
        /\ LET withHref == {i \in Canonicals(cleaned_html) : HasHref(cleaned_html[i])}
           IN  url = IF withHref = {} THEN None
                     ELSE get(cleaned_html[Min(withHref)], "href", "")

\* C10 as amended: the extractor returns the first element of the highest-priority
\* class that is not empty, and the href of the first canonical link of the
\* document if that link has a non-empty href, None otherwise (also when a later
\* canonical link has one).
C10_Extract ==
    pc = "prompt" =>
        /\ main_html = ExtractedMain(cleaned_html)
        /\ url = IF Canonicals(cleaned_html) # {}
                    /\ HasHref(cleaned_html[Min(Canonicals(cleaned_html))])
                 THEN get(cleaned_html[Min(Canonicals(cleaned_html))], "href", "")
                 ELSE None
        /\ error = "none"

\* C10 witness: the extractor has returned a <main> that follows an element with
\* id main-content, and the href of the first canonical link
C10_Witness ==
    /\ pc = "prompt"
    /\ MainContents(cleaned_html) # {}
    /\ Mains(cleaned_html) # {}
    /\ Min(MainContents(cleaned_html)) < Min(Mains(cleaned_html))
    /\ main_html[1].tag = "main"
    /\ url = "https://x.test/page"

\* a tree without the identities of its elements
anonymous(doc) == [i \in 1..Len(doc) |-> [doc[i] EXCEPT !.nid = 0]]

\* the synthesized <main class="a11y-page" role="main"> around the top-level
\* strings and the elements of a parsed piece of markup
Wrapped(markup) ==
    <<Elem(0, 1, "main", {<<"class", "a11y-page">>, <<"role", "main">>}, soup_strings(markup))>>
    \o [k \in 1..Len(BeautifulSoup(markup, 0)) |->
           [BeautifulSoup(markup, 0)[k] EXCEPT !.depth = @ + 1]]

\* the markup has a <main> start tag
HasMainTag(markup) == \E k \in 1..Len(markup) : markup[k] = StartTag("main", markup[k].attrs)

\* the markup before its first </main> end tag, all of it when it has none
BeforeEndMain(markup) ==
    LET ends == {k \in 1..Len(markup) : markup[k] = EndTag("main")}
    IN  IF ends = {} THEN markup ELSE SubSeq(markup, 1, Min(ends) - 1)

\* the result has a single root, a <main>; the splicer's Malformed error is not
\* raised; the normalization of the result is the result
SingleMainRoot ==
    /\ Len(new_main_outer) > 0
    /\ new_main_outer[1].tag = "main"
    /\ new_main_outer[1].depth = 1
    /\ End(new_main_outer, 1) = Len(new_main_outer)
    /\ error # "Malformed"
    /\ BeautifulSoup(ensure_single_main_outer_html(str(new_main_outer)), 100) = new_main_outer

\* the first <main> of the output, when it has one
FirstMainReturned ==
    HasMainTag(raw_model_output) =>
        anonymous(new_main_outer)
            = anonymous(outer_html(BeautifulSoup(raw_model_output, 0),
                                   Min(Mains(BeautifulSoup(raw_model_output, 0)))))

\* C11 as claimed: the normalized output has a single root <main>: the first <main>
\* of the output when it has one, otherwise the whole output wrapped in the
\* synthesized <main>; the splicer never raises Malformed and the normalization is
\* idempotent.
C11_WrapIfAbsent ==
    pc \in {"splice", "done", "failed"} =>
        /\ SingleMainRoot
        /\ FirstMainReturned
        /\ ~HasMainTag(raw_model_output) =>
               anonymous(new_main_outer) = anonymous(Wrapped(raw_model_output))

\* C11 as amended: as above, but without a <main> in the output the synthesized
\* <main> holds the output up to its first stray </main> end tag only (the whole
\* output when it has none): what follows that end tag is dropped.
C11_Normalize ==
    pc \in {"splice", "done", "failed"} =>
        /\ SingleMainRoot
        /\ FirstMainReturned
        /\ ~HasMainTag(raw_model_output) =>
               anonymous(new_main_outer) = anonymous(Wrapped(BeforeEndMain(raw_model_output)))

\* C11 witness: an output without <main>, with elements before and after a stray
\* </main>, has been normalized and spliced
C11_Witness ==
    /\ pc = "done"
    /\ ~HasMainTag(raw_model_output)
    /\ \E k \in 2..(Len(raw_model_output) - 1) :
          /\ raw_model_output[k] = EndTag("main")
          /\ raw_model_output[k - 1].t = "start"
          /\ raw_model_output[k + 1].t = "start"
    /\ Len(new_main_outer) = 2


\* the simplified document has the elements of the input, in the same order and
\* nesting, with the same strings up to whitespace; applied to its own result the
\* operation changes nothing
SameElementsAndText ==
    /\ Len(user_prompt) = Len(cleaned_html)
    /\ \A i \in 1..Len(user_prompt) :
          /\ user_prompt[i].nid = cleaned_html[i].nid
          /\ user_prompt[i].tag = cleaned_html[i].tag
          /\ user_prompt[i].depth = cleaned_html[i].depth
          /\ Len(user_prompt[i].text) = Len(cleaned_html[i].text)
          /\ \A k \in 1..Len(user_prompt[i].text) :
                Collapse(user_prompt[i].text[k]) = Collapse(cleaned_html[i].text[k])
    /\ simplify_html_for_prompt(user_prompt) = user_prompt

\* an <a> element that has an href
Anchor(n) == n.tag = "a" /\ has_attr(n, "href")

Unfiltered == anonymous(soup) = anonymous(html_to_clean) /\ nids(soup) = nids(html_to_clean)

\* the splicer has located a node and replaced the elements the extractor returned
ReplacedExtracted ==
    /\ error # "NotFound"
    /\ Unfiltered
    /\ pc = "done" => nids(html_to_clean) \ nids(final_html) = nids(main_html)

\* C13 as claimed: for every document the node the splicer locates and replaces is
\* the node the extractor selects, body and whole document included.
C13_SameCandidate == splices > 0 => ReplacedExtracted

\* C13 as amended: the two agree when the document has a <main>, an element with
\* id main-content or an element with role main; when it has none the extractor
\* selects the body, or the whole document, and the splicer raises NotFound.
C13_Candidate ==
    splices > 0 =>
        IF Candidate(html_to_clean) # 0
        THEN /\ ReplacedExtracted
             /\ main_html[1].nid = html_to_clean[Candidate(html_to_clean)].nid
        ELSE /\ error = "NotFound"
             /\ pc = "failed"
             /\ nids(main_html) =
                    IF Bodies(html_to_clean) # {}
                    THEN {html_to_clean[j].nid :
                             j \in Subtree(html_to_clean, Min(Bodies(html_to_clean)))}
                    ELSE nids(html_to_clean)

\* C13 witness: a splice has replaced the element with id main-content of a document
\* without <main>, in which an element with role main comes first
C13_Witness ==
    /\ pc = "done"
    /\ Mains(html_to_clean) = {}
    /\ MainContents(html_to_clean) # {}
    /\ RoleMains(html_to_clean) # {}
    /\ Min(RoleMains(html_to_clean)) < Min(MainContents(html_to_clean))
    /\ main_html[1].tag = "div"


\* C14: for every original that has a main-content candidate and no <head>, a
\* fragment without <html> included, the splice succeeds, creates a <head> as first
\* child of the root element and places the injected style element in it.
C14_HeadCreated ==
    (/\ pc \in {"done", "failed"}
     /\ Candidate(html_to_clean) # 0
     /\ find_tag(html_to_clean, "head") = 0
     /\ Mains(new_main_outer) # {}) =>
        /\ pc = "done"
        /\ error = "none"
        /\ Len(final_html) >= 3
        /\ final_html[2].tag = "head"
        /\ final_html[2].depth = final_html[1].depth + 1
        /\ final_html[1].depth = 1
        /\ \E j \in descendants(final_html, {}, 2) : InjectedStyle(final_html[j])


\* the div and span elements of a tree that satisfy the removal condition of line 817
EmptyContainers(doc) ==
    {i \in 1..Len(doc) : doc[i].tag \in {"div", "span"} /\ is_empty_container(doc, {}, i)}

\* a tree has a <div> whose only child is an empty <div>
NestedEmptyDivs(doc) ==
    \E i \in 1..(Len(doc) - 1) :
        /\ doc[i].tag = "div"
        /\ doc[i + 1].tag = "div"
        /\ Subtree(doc, i) = {i, i + 1}
        /\ i \in EmptyContainers(doc)

\* C15 as claimed: there is a document with nested empty containers for which,
\* after the one pass, a div or span that satisfies the removal condition is still
\* in the tree and a second pass removes it.
C15_SecondPassRemoves ==
    \E k \in 2..MaxNodes : \E d \in DepthSeqs(k) : \E kinds \in [1..k -> PalEmpties] :
        LET doc == MakeDoc(d, kinds, 0)
            once == remove_empty_containers(doc)
        IN  /\ WellFormed(doc)
            /\ NestedEmptyDivs(doc)
            /\ EmptyContainers(once) # {}
            /\ remove_empty_containers(once) # once

\* C15 as amended: the one pass removes the div and span elements that satisfy the
\* removal condition, each with its contents, and nothing else; as the list is in
\* document order an outer container is reached, and removed whole, before the
\* containers inside it, so that after the pass no div or span satisfies the
\* condition and a second pass removes nothing.
C15_OnePassFixedPoint ==
    [][pc = "empties" =>
        /\ nids(soup') = nids(soup) \ {soup[j].nid : j \in UNION {Subtree(soup, i) :
                                                         i \in EmptyContainers(soup)}}
        /\ EmptyContainers(soup') = {}
        /\ remove_empty_containers(soup') = soup']_vars

\* C15 witness: the pass has run on a document with a <div> whose only child is an
\* empty <div>, has removed both and has left other elements
C15_Witness ==
    /\ pc = "prettify"
    /\ NestedEmptyDivs(html_to_clean)
    /\ Len(soup) > 0
    /\ \A i \in 1..Len(soup) : soup[i].tag # "div"


\* an element hidden by its style
HiddenByStyle(n) ==
    has_attr(n, "style") /\ DisplayNoneRe(Lower(get(n, "style", "")))

\* the elements hidden by aria-hidden or by their style, with their contents
Hidden(doc) ==
    UNION {Subtree(doc, i) :
              i \in {j \in 1..Len(doc) :
                        get(doc[j], "aria-hidden", None) = "true" \/ HiddenByStyle(doc[j])}}

\* C16: the hidden-element pass removes every attached element whose lower-cased
\* style matches display:none, with its contents, and nothing but the hidden
\* elements; reaching an element of its list that was detached with an ancestor
\* earlier in the pass raises no error and leaves the tree as it is.
C16_HiddenPass ==
    [][pc = "hidden" =>
        /\ error' = error
        /\ pc' = "attributes"
        /\ soup' = Compact(soup, Hidden(soup))]_vars

\* C16 witness: the pass has run on a document in which an element hidden by its
\* style holds another one, has removed both and has left other elements
C16_Witness ==
    /\ pc = "attributes"
    /\ error = "none"
    /\ \E i \in 1..Len(html_to_clean) :
          /\ HiddenByStyle(html_to_clean[i])
          /\ \E j \in descendants(html_to_clean, {}, i) : HiddenByStyle(html_to_clean[j])
          /\ \A j \in Subtree(html_to_clean, i) : html_to_clean[j].nid \notin nids(soup)
    /\ Len(soup) > 0


\* C17: the source HTML of the prompt is the simplified form of the main-content
\* sub-tree the extractor returned; no markup of the cleaned document outside that
\* sub-tree is in the prompt.
C17_PromptIsMainContent ==
    pc = "model" =>
        /\ user_prompt = simplify_html_for_prompt(main_html)
        /\ nids(user_prompt) \subseteq nids(main_html)


\* C18: the filter passes remove every canonical link before the tree is
\* serialized, so the serialization has none and the URL the extractor returns in
\* clean_html is None for every request.
C18_CanonicalAbsent ==
    /\ url = None
    /\ Canonicals(cleaned_html) = {}
    /\ pc \notin {"tags", "headers", "scripts", "extensions"} => Canonicals(soup) = {}

\* C18 witness: the extractor has run for a submitted document with a canonical
\* link that has an href
C18_Witness ==
    /\ pc = "prompt"
    /\ \E i \in Canonicals(html_to_clean) : HasHref(html_to_clean[i])
    /\ Len(main_html) > 0
    /\ url = None


\* the elements of the submitted HTML outside the main-content node that is replaced
Outside(doc) == {i \in 1..Len(doc) : i \notin Subtree(doc, Candidate(doc))}

\* the element at i of the submitted HTML is in the response as it was submitted
InResponse(i) ==
    \E j \in 1..Len(final_html) :
        [final_html[j] EXCEPT !.nid = 0] = [html_to_clean[i] EXCEPT !.nid = 0]

\* the elements of the response that come from the submitted HTML are in the order
\* they were submitted in
SubmittedOrder ==
    \A j1, j2 \in 1..Len(final_html) : \A i1, i2 \in 1..Len(html_to_clean) :
        (/\ final_html[j1].nid = html_to_clean[i1].nid
         /\ final_html[j2].nid = html_to_clean[i2].nid
         /\ i1 < i2) => j1 < j2

\* C19 as claimed: the response is the splice into the submitted, unfiltered HTML:
\* every element of the submitted HTML outside the replaced main-content node is
\* still in the response, whatever the filter passes removed from their tree.
C19_FiltersNotInResponse ==
    pc = "done" =>
        /\ SubmittedOrder
        /\ \A i \in Outside(html_to_clean) : InResponse(i)

\* the style elements with the injection id below the head the splicer finds: the
\* first head that is left once the main-content node is replaced
OldStyles(doc) ==
    LET heads == {i \in Outside(doc) : doc[i].tag = "head"}
    IN  IF heads = {} THEN {}
        ELSE {j \in descendants(doc, {}, Min(heads)) \cap Outside(doc) :
                 InjectedStyle(doc[j])}

\* C19 as amended: every element outside the replaced node is still in the
\* response, except the first previously injected style element of the head, which
\* the splicer itself replaces with a fresh one.
C19_Response ==
    pc = "done" =>
        /\ SubmittedOrder
        /\ \A i \in Outside(html_to_clean) :
              InResponse(i) \/ i = first(OldStyles(html_to_clean))

\* C19 witness: a response was returned for a submitted document from which the
\* filter passes removed a tracking script outside the main content
C19_Witness ==
    /\ pc = "done"
    /\ \E i \in Outside(html_to_clean) :
          /\ html_to_clean[i].tag = "script"
          /\ html_to_clean[i].nid \notin nids(soup)
          /\ InResponse(i)


====
